---- MODULE Spec2Model ----
(***************************************************************************)
(* Finite-element basis construction of fe_utils/finite_elements.py:       *)
(* lagrange_points, vandermonde_matrix, FiniteElement, LagrangeElement     *)
(* and VectorFiniteElement.                                                *)
(*                                                                         *)
(* numpy's float arrays are modelled by exact rationals <<num, den>> in    *)
(* lowest terms with den > 0, extended by the IEEE values the code can     *)
(* produce: NaN = <<0, 0>> (0/0) and the infinities <<1, 0>>, <<-1, 0>>.   *)
(* Arrays are sequences (1-based); node and entity indices stored inside   *)
(* them are the program's 0-based integers.                                *)
(***************************************************************************)
EXTENDS Integers, Sequences, FiniteSets, TLC

VARIABLES cell, degree, pc, fe, vfe, call, memo

vars == <<cell, degree, pc, fe, vfe, call, memo>>

(* ---------------------------- bounds ----------------------------------- *)

\* Largest polynomial degree explored.
MaxDegree == 3
\* Longest list of evaluation points passed to a call.
MaxPoints == 1

(* ------------------------ float arithmetic ----------------------------- *)

Abs(n) == IF n < 0 THEN 0 - n ELSE n

RECURSIVE GCD(_, _)
GCD(a, b) == IF b = 0 THEN a ELSE GCD(b, a % b)

NaN == <<0, 0>>

\* n / d as numpy computes it under np.seterr(invalid='ignore', divide='ignore').
Q(n, d) ==
  IF d = 0
  THEN (IF n = 0 THEN NaN ELSE IF n > 0 THEN <<1, 0>> ELSE <<0 - 1, 0>>)
  ELSE LET g == GCD(Abs(n), Abs(d))
           s == IF d < 0 THEN 0 - 1 ELSE 1
       IN  <<(s * n) \div g, (s * d) \div g>>

QInt(n) == <<n, 1>>

Finite(x) == x[2] # 0

QMul(x, y) ==
  IF Finite(x) /\ Finite(y) THEN Q(x[1] * y[1], x[2] * y[2])
  ELSE IF x = NaN \/ y = NaN \/ x[1] = 0 \/ y[1] = 0 THEN NaN
  ELSE Q(x[1] * y[1], 0)

QAdd(x, y) ==
  IF Finite(x) /\ Finite(y) THEN Q(x[1] * y[2] + y[1] * x[2], x[2] * y[2])
  ELSE IF x = NaN \/ y = NaN THEN NaN
  ELSE IF ~Finite(x) /\ ~Finite(y) THEN (IF x = y THEN x ELSE NaN)
  ELSE IF Finite(x) THEN y ELSE x

QSub(x, y) == QAdd(x, <<0 - y[1], y[2]>>)

QDiv(x, y) ==
  IF Finite(x) /\ Finite(y) THEN Q(x[1] * y[2], x[2] * y[1]) ELSE NaN

\* x ** e for an integer e >= 0; numpy gives x ** 0 = 1 for every x, NaN included.
RECURSIVE QPow(_, _)
QPow(x, e) == IF e = 0 THEN QInt(1) ELSE QMul(x, QPow(x, e - 1))

\* Comparisons are false as soon as an operand is NaN.
QLe(x, y) ==
  /\ x # NaN /\ y # NaN
  /\ IF Finite(x) /\ Finite(y) THEN x[1] * y[2] <= y[1] * x[2]
     ELSE IF Finite(x) THEN y[1] > 0
     ELSE IF Finite(y) THEN x[1] < 0
     ELSE x[1] <= y[1]

QEq(x, y) == x # NaN /\ y # NaN /\ x = y

Max(a, b) == IF a >= b THEN a ELSE b

(* -------------------------- small helpers ------------------------------ *)

\* An array built elementwise, held as a sequence of computed elements.
Arr(f) == f \o <<>>

\* range(n)
Range(n) == [k \in 1..n |-> k - 1]

RECURSIVE Concat(_)
Concat(ss) == IF ss = <<>> THEN <<>> ELSE Head(ss) \o Concat(Tail(ss))

RECURSIVE SumSeq(_)
SumSeq(s) == IF s = <<>> THEN 0 ELSE Head(s) + SumSeq(Tail(s))

Reverse(s) == [k \in 1..Len(s) |-> s[Len(s) + 1 - k]]

\* itertools.product(r, repeat=n): tuples in lexicographic order, last fastest.
RECURSIVE Product(_, _)
Product(r, n) ==
  IF n = 0 THEN << <<>> >>
  ELSE Concat([a \in 1..Len(r) |->
                 [b \in 1..Len(Product(r, n - 1)) |->
                    <<r[a]>> \o Product(r, n - 1)[b]]])

\* A returned value, or the exception the call ends with.
Ok(v) == [raised |-> "None", val |-> v]
Raise(e) == [raised |-> e, val |-> <<>>]

(* ------------------------- reference cells ----------------------------- *)

Cells == {"ReferenceInterval", "ReferenceTriangle"}

dim(c) == IF c = "ReferenceInterval" THEN 1 ELSE 2

\* entity_counts[d] is entity_counts(c)[d + 1].
entity_counts(c) == IF c = "ReferenceInterval" THEN <<2, 1>> ELSE <<3, 3, 1>>

\* The containment predicate of the reference cell: the point x lies on
\* entity (d, i), the convex hull of the entity's vertices.
point_in_entity(c, x, d, i) ==
  LET zero == QInt(0)
      one  == QInt(1)
  IN  IF c = "ReferenceInterval"
      THEN IF d = 0 THEN QEq(x[1], QInt(i))
           ELSE QLe(zero, x[1]) /\ QLe(x[1], one)
      ELSE LET inside == QLe(zero, x[1]) /\ QLe(zero, x[2])
                         /\ QLe(QAdd(x[1], x[2]), one)
           IN  IF d = 0
               THEN QEq(x[1], QInt(IF i = 1 THEN 1 ELSE 0))
                    /\ QEq(x[2], QInt(IF i = 2 THEN 1 ELSE 0))
               ELSE IF d = 1
               THEN /\ inside
                    /\ IF i = 0 THEN QEq(QAdd(x[1], x[2]), one)
                       ELSE IF i = 1 THEN QEq(x[1], zero)
                       ELSE QEq(x[2], zero)
               ELSE inside

(* -------------------------- lagrange_points ---------------------------- *)

\* The tuples the loop of lagrange_points keeps, in loop order.
KeptTuples(c, deg) ==
  SelectSeq(Product(Range(deg + 1), dim(c)), LAMBDA t : SumSeq(t) <= deg)

\* lagrange_points without the test sum(i) <= degree.
lagrange_points_unfiltered(c, deg) ==
  LET kept == Product(Range(deg + 1), dim(c))
  IN  Ok(Arr([n \in 1..Len(kept) |->
            Arr([k \in 1..dim(c) |-> Q(Reverse(kept[n])[k], deg)])]))

lagrange_points(c, deg) ==
  LET kept == KeptTuples(c, deg)
  IN  Ok(Arr([n \in 1..Len(kept) |->
            Arr([k \in 1..dim(c) |-> Q(Reverse(kept[n])[k], deg)])]))

(* ------------------------- vandermonde_matrix -------------------------- *)

\* The (i, j) pairs the loops of vandermonde_matrix visit, in loop order.
Monomials(c, deg) ==
  Concat([a \in 1..(deg + 1) |->
            [b \in 1..((dim(c) - 1) * (a - 1) + 1) |-> <<a - 1, b - 1>>]])

\* column with the two axis tests of the exponents exchanged.
column_swapped(x, g, i, idx, j) ==
  LET exp_1 == Max((i - j) - g * idx, 0)
      exp_2 == Max(j - g * (1 - idx), 0)
  IN  QMul(QPow(x[1], exp_1), QPow(x[Len(x)], exp_2))

\* column(i, idx, j) at one point x; g is grad as the integer numpy uses.
column(x, g, i, idx, j) ==
  LET exp_1 == Max((i - j) - g * (1 - idx), 0)
      exp_2 == Max(j - g * idx, 0)
  IN  QMul(QPow(x[1], exp_1), QPow(x[Len(x)], exp_2))

\* The factor each gradient column is multiplied by.
GradFactor(i, j, k) == (i - j) * (1 - k) + j * k

vandermonde_matrix(c, deg, points, grad) ==
  LET ms == Monomials(c, deg)
  IN  IF grad
      THEN IF ms = <<>> THEN Raise("AxisError")
           ELSE Ok(Arr([p \in 1..Len(points) |-> Arr([b \in 1..Len(ms) |->
                      Arr([k \in 1..dim(c) |->
                         QMul(QInt(GradFactor(ms[b][1], ms[b][2], k - 1)),
                              column(points[p], 1, ms[b][1], k - 1, ms[b][2]))])])]))
      ELSE IF ms = <<>> THEN Raise("ValueError")
           ELSE Ok(Arr([p \in 1..Len(points) |-> Arr([b \in 1..Len(ms) |->
                      column(points[p], 0, ms[b][1], 0, ms[b][2])])]))

(* ---------------------------- linear algebra --------------------------- *)

RECURSIVE QSum(_)
QSum(s) == IF s = <<>> THEN QInt(0) ELSE QAdd(Head(s), QSum(Tail(s)))

\* A @ B for rank 2 arrays.
MatMul(A, B) ==
  Arr([i \in 1..Len(A) |-> Arr([l \in 1..Len(B[1]) |->
     QSum(Arr([j \in 1..Len(B) |-> QMul(A[i][j], B[j][l])]))])])

\* np.einsum("ijk,jl->ilk", T, C)
Einsum_ijk_jl_ilk(T, C) ==
  Arr([i \in 1..Len(T) |-> Arr([l \in 1..Len(C[1]) |-> Arr([k \in 1..Len(T[i][1]) |->
     QSum(Arr([j \in 1..Len(C) |-> QMul(T[i][j][k], C[j][l])]))])])])

RECURSIVE FirstPivot(_, _, _)
FirstPivot(A, k, p) ==
  IF p > Len(A) THEN 0
  ELSE IF A[p][k][1] # 0 THEN p ELSE FirstPivot(A, k, p + 1)

\* Gauss-Jordan elimination of the augmented matrix A from column k on.
RECURSIVE Eliminate(_, _)
Eliminate(A, k) ==
  LET n == Len(A) IN
  IF k > n THEN Ok(A)
  ELSE LET p == FirstPivot(A, k, k) IN
       IF p = 0 THEN Raise("LinAlgError")
       ELSE LET rowk == Arr([j \in 1..(2 * n) |-> QDiv(A[p][j], A[p][k])])
                B == Arr([i \in 1..n |->
                        IF i = k THEN rowk
                        ELSE LET src == IF i = p THEN A[k] ELSE A[i]
                             IN  IF src[k][1] = 0 THEN src
                                 ELSE Arr([j \in 1..(2 * n) |->
                                         QSub(src[j], QMul(src[k], rowk[j]))])])
            IN  Eliminate(B, k + 1)

\* np.linalg.inv(V): the exact inverse, or LinAlgError when V is singular.
inv(V) ==
  LET n == Len(V)
      Aug == Arr([i \in 1..n |-> Arr([j \in 1..(2 * n) |->
                IF j <= n THEN V[i][j]
                ELSE IF j - n = i THEN QInt(1) ELSE QInt(0)])])
      R == Eliminate(Aug, 1)
  IN  IF R.raised # "None" THEN R
      ELSE Ok(Arr([i \in 1..n |-> Arr([j \in 1..n |-> R.val[i][n + j]])]))

(* ----------------------------- FiniteElement --------------------------- *)

Null == [none |-> TRUE]

\* FiniteElement.__init__ keeping V itself as basis_coefs.
FiniteElement_uninverted(c, deg, nodes, entity_nodes) ==
  LET nodes_per_entity == [d \in 1..(dim(c) + 1) |-> Len(entity_nodes[d][1])]
      V == vandermonde_matrix(c, deg, nodes, FALSE)
  IN  IF V.raised # "None" THEN Raise(V.raised)
      ELSE Ok([cell |-> c, degree |-> deg, nodes |-> nodes,
               entity_nodes |-> entity_nodes,
               nodes_per_entity |-> nodes_per_entity,
               basis_coefs |-> V.val,
               node_count |-> Len(nodes)])

\* FiniteElement.__init__(cell, degree, nodes, entity_nodes)
FiniteElement(c, deg, nodes, entity_nodes) ==
  LET nodes_per_entity == [d \in 1..(dim(c) + 1) |-> Len(entity_nodes[d][1])]
      V == vandermonde_matrix(c, deg, nodes, FALSE)
      basis_coefs == IF V.raised # "None" THEN V ELSE inv(V.val)
  IN  IF basis_coefs.raised # "None" THEN Raise(basis_coefs.raised)
      ELSE Ok([cell |-> c, degree |-> deg, nodes |-> nodes,
               entity_nodes |-> entity_nodes,
               nodes_per_entity |-> nodes_per_entity,
               basis_coefs |-> basis_coefs.val,
               node_count |-> Len(nodes)])

\* FiniteElement.tabulate(points, grad)
tabulate(e, points, grad) ==
  LET M == vandermonde_matrix(e.cell, e.degree, points, grad)
  IN  IF M.raised # "None" THEN M
      ELSE IF grad THEN Ok(Einsum_ijk_jl_ilk(M.val, e.basis_coefs))
      ELSE Ok(MatMul(M.val, e.basis_coefs))

\* The functions handed to interpolate.
Fns == {"one", "x", "sumsq"}

ApplyFn(fn, x) ==
  IF fn = "one" THEN QInt(1)
  ELSE IF fn = "x" THEN x[1]
  ELSE QSum([k \in 1..Len(x) |-> QMul(x[k], x[k])])

\* FiniteElement.interpolate(fn)
interpolate(e, fn) == Ok(Arr([n \in 1..Len(e.nodes) |-> ApplyFn(fn, e.nodes[n])]))

(* ---------------------------- LagrangeElement -------------------------- *)

\* entity_nodes with every list empty.
EmptyEntityNodes(c) ==
  [d \in 1..(dim(c) + 1) |-> [i \in 1..entity_counts(c)[d] |-> <<>>]]

\* The (d, i) pairs in the order add_entity_node tries them.
Entities(c) ==
  Concat([d \in 1..(dim(c) + 1) |->
            [i \in 1..entity_counts(c)[d] |-> <<d - 1, i - 1>>]])

\* The first entity whose point_in_entity holds for n, or <<>> when the
\* loops of add_entity_node end without one.
FirstEntity(c, n) ==
  LET hits == SelectSeq(Entities(c),
                        LAMBDA e : point_in_entity(c, n, e[1], e[2]))
  IN  IF hits = <<>> THEN <<>> ELSE Head(hits)

\* add_entity_node(n_idx, n): entity_nodes after the call appends `added`.
add_entity_node(entity_nodes, c, n, added) ==
  LET e == FirstEntity(c, n)
  IN  IF e = <<>> THEN entity_nodes
      ELSE [entity_nodes EXCEPT ![e[1] + 1][e[2] + 1] = @ \o added]

\* for n_idx, n in enumerate(nodes): add_entity_node(n_idx, n)
RECURSIVE ClassifyNodes(_, _, _, _)
ClassifyNodes(entity_nodes, c, nodes, n_idx) ==
  IF n_idx >= Len(nodes) THEN entity_nodes
  ELSE ClassifyNodes(
         add_entity_node(entity_nodes, c, nodes[n_idx + 1], <<n_idx>>),
         c, nodes, n_idx + 1)

\* LagrangeElement.__init__(cell, degree)
LagrangeElement(c, deg) ==
  LET nodes == lagrange_points(c, deg).val
      entity_nodes == ClassifyNodes(EmptyEntityNodes(c), c, nodes, 0)
  IN  FiniteElement(c, deg, nodes, entity_nodes)

(* -------------------------- VectorFiniteElement ------------------------ *)

\* for n_idx, n in enumerate(fe.nodes): add_entity_node(n_idx, n)
RECURSIVE VClassifyNodes(_, _, _, _)
VClassifyNodes(entity_nodes, c, nodes, n_idx) ==
  IF n_idx >= Len(nodes) THEN entity_nodes
  ELSE VClassifyNodes(
         add_entity_node(entity_nodes, c, nodes[n_idx + 1],
                         <<2 * n_idx, 2 * n_idx + 1>>),
         c, nodes, n_idx + 1)

\* VectorFiniteElement.__init__(fe)
VectorFiniteElement(e) ==
  LET c == e.cell
      nodes == Concat([n \in 1..Len(e.nodes) |->
                         [r \in 1..dim(c) |-> e.nodes[n]]])
      entity_nodes == VClassifyNodes(EmptyEntityNodes(c), c, e.nodes, 0)
  IN  [finite_element |-> e,
       nodes |-> nodes,
       entity_nodes |-> entity_nodes,
       nodes_per_entity |-> [d \in 1..(dim(c) + 1) |-> Len(entity_nodes[d][1])],
       node_weights |-> [i \in 1..Len(nodes) |-> <<i % 2, (i - 1) % 2>>],
       node_count |-> Len(nodes)]

\* e = np.array([(i+1) % 2, i % 2]) for the 0-based basis index i.
UnitVector(i) == <<QInt((i + 1) % 2), QInt(i % 2)>>

\* VectorFiniteElement.tabulate(points, grad)
vtabulate(v, points, grad) ==
  LET phi == tabulate(v.finite_element, points, grad)
      c == v.finite_element.cell
  IN  IF phi.raised # "None" THEN phi
      ELSE LET width == Len(phi.val[1]) * dim(c)
           IN  IF grad
               THEN Ok(Arr([p \in 1..Len(phi.val) |-> Arr([i \in 1..width |->
                          Arr([k \in 1..Len(phi.val[p][1]) |-> Arr([j \in 1..2 |->
                             QMul(phi.val[p][((i - 1) \div 2) + 1][k],
                                  UnitVector(i - 1)[j])])])])]))
               ELSE Ok(Arr([p \in 1..Len(phi.val) |-> Arr([i \in 1..width |->
                          Arr([j \in 1..2 |->
                             QMul(phi.val[p][((i - 1) \div 2) + 1],
                                  UnitVector(i - 1)[j])])])]))

(* ------------------------------- inputs -------------------------------- *)

\* Degrees start below zero: the code accepts any integer.
Degrees == (0 - 1)..MaxDegree

\* Evaluation points, some with a zero coordinate.
Points(c) ==
  IF c = "ReferenceInterval"
  THEN {<<Q(0, 1)>>, <<Q(1, 3)>>}
  ELSE {<<Q(0, 1), Q(1, 2)>>, <<Q(1, 2), Q(1, 3)>>}

PointLists(c) == UNION {[1..n -> Points(c)] : n \in 1..MaxPoints}

\* The point list whose first tabulation is remembered.
Probe(c) ==
  IF c = "ReferenceInterval" THEN << <<Q(1, 3)>> >>
  ELSE << <<Q(1, 2), Q(1, 3)>> >>

\* The point lists vandermonde_matrix is called with: the input lists and
\* the nodes FiniteElement.__init__ passes, when there are any.
VandermondeInputs ==
  PointLists(cell) \cup ({lagrange_points(cell, degree).val} \ {<<>>})

NoCall == [op |-> "none", points |-> <<>>, grad |-> FALSE, fn |-> "", ret |-> Null]

NoMemo == [first |-> NoCall, later |-> FALSE]

(* ------------------------------- actions ------------------------------- *)

Init ==
  /\ cell \in Cells
  /\ degree \in Degrees
  /\ pc = "start"
  /\ fe = Null
  /\ vfe = Null
  /\ call = NoCall
  /\ memo = NoMemo

\* lagrange_points(cell, degree) called on its own.
CallLagrangePoints ==
  /\ pc = "start"
  /\ call' = [NoCall EXCEPT !.op = "lagrange_points",
                            !.ret = lagrange_points(cell, degree)]
  /\ UNCHANGED <<cell, degree, pc, fe, vfe, memo>>

\* vandermonde_matrix(cell, degree, points, grad) called on its own.
CallVandermonde(points, grad) ==
  /\ pc = "start"
  /\ call' = [NoCall EXCEPT !.op = "vandermonde_matrix", !.points = points,
                            !.grad = grad,
                            !.ret = vandermonde_matrix(cell, degree, points, grad)]
  /\ UNCHANGED <<cell, degree, pc, fe, vfe, memo>>

\* fe = LagrangeElement(cell, degree)
Construct ==
  /\ pc = "start"
  /\ LET r == LagrangeElement(cell, degree)
     IN  /\ pc' = IF r.raised = "None" THEN "scalar" ELSE "failed"
         /\ fe' = IF r.raised = "None" THEN r.val ELSE Null
         /\ call' = [NoCall EXCEPT !.op = "LagrangeElement",
                                   !.ret = IF r.raised = "None" THEN Ok(<<>>) ELSE r]
  /\ UNCHANGED <<cell, degree, vfe, memo>>

SameArguments(c, m) == c.op = m.op /\ c.points = m.points /\ c.grad = m.grad

\* History of the calls: the first tabulation of the probe list is
\* remembered, and so is whether a different call was made after it.
Remember(c) ==
  IF memo = NoMemo
  THEN (IF c.points = Probe(cell) THEN [first |-> c, later |-> FALSE] ELSE memo)
  ELSE IF SameArguments(c, memo.first) THEN memo
  ELSE [memo EXCEPT !.later = TRUE]

\* tabulate that keeps the points it was given as the element's nodes.
Tabulate_storing(points, grad) ==
  /\ pc \in {"scalar", "vector"}
  /\ call' = [NoCall EXCEPT !.op = "tabulate", !.points = points, !.grad = grad,
                            !.ret = tabulate(fe, points, grad)]
  /\ memo' = Remember(call')
  /\ fe' = [fe EXCEPT !.nodes = points]
  /\ UNCHANGED <<cell, degree, pc, vfe>>

\* fe.tabulate(points, grad)
Tabulate(points, grad) ==
  /\ pc \in {"scalar", "vector"}
  /\ call' = [NoCall EXCEPT !.op = "tabulate", !.points = points, !.grad = grad,
                            !.ret = tabulate(fe, points, grad)]
  /\ memo' = Remember(call')
  /\ UNCHANGED <<cell, degree, pc, fe, vfe>>

\* fe.tabulate(fe.nodes)
TabulateNodes ==
  /\ pc \in {"scalar", "vector"}
  /\ call' = [NoCall EXCEPT !.op = "tabulate", !.points = fe.nodes,
                            !.ret = tabulate(fe, fe.nodes, FALSE)]
  /\ memo' = Remember(call')
  /\ UNCHANGED <<cell, degree, pc, fe, vfe>>

\* fe.interpolate(fn)
Interpolate(fn) ==
  /\ pc \in {"scalar", "vector"}
  /\ call' = [NoCall EXCEPT !.op = "interpolate", !.fn = fn,
                            !.ret = interpolate(fe, fn)]
  /\ memo' = Remember(call')
  /\ UNCHANGED <<cell, degree, pc, fe, vfe>>

\* vfe = VectorFiniteElement(fe)
ConstructVector ==
  /\ pc = "scalar"
  /\ pc' = "vector"
  /\ vfe' = VectorFiniteElement(fe)
  /\ call' = [NoCall EXCEPT !.op = "VectorFiniteElement", !.ret = Ok(<<>>)]
  /\ UNCHANGED <<cell, degree, fe, memo>>

\* vfe.tabulate(points, grad)
VTabulate(points, grad) ==
  /\ pc = "vector"
  /\ call' = [NoCall EXCEPT !.op = "vtabulate", !.points = points, !.grad = grad,
                            !.ret = vtabulate(vfe, points, grad)]
  /\ memo' = Remember(call')
  /\ UNCHANGED <<cell, degree, pc, fe, vfe>>

Next ==
  \/ CallLagrangePoints
  \/ \E points \in VandermondeInputs, grad \in BOOLEAN : CallVandermonde(points, grad)
  \/ Construct
  \/ \E points \in PointLists(cell), grad \in BOOLEAN : Tabulate(points, grad)
  \/ TabulateNodes
  \/ \E fn \in Fns : Interpolate(fn)
  \/ ConstructVector
  \/ \E points \in PointLists(cell), grad \in BOOLEAN : VTabulate(points, grad)

Spec == Init /\ [][Next]_vars

(* ------------------------------- claims -------------------------------- *)

Constructed == pc \in {"scalar", "vector"}

\* The dimension of the complete polynomial space of degree deg.
ExpectedCount(c, deg) ==
  IF dim(c) = 1 THEN deg + 1 ELSE ((deg + 1) * (deg + 2)) \div 2

\* The n x n identity matrix.
Identity(n) == Arr([i \in 1..n |-> Arr([j \in 1..n |-> IF i = j THEN QInt(1) ELSE QInt(0)])])

\* C1: tabulate(element.nodes) in value mode is the identity matrix of size
\* node_count, for every constructed Lagrange element.
C1_TabulateNodesIsIdentity ==
  (Constructed /\ call.op = "tabulate" /\ call.points = fe.nodes /\ ~call.grad)
    => call.ret = Ok(Identity(fe.node_count))

C1_Witness ==
  /\ Constructed /\ call.op = "tabulate" /\ call.points = fe.nodes /\ ~call.grad
  /\ cell = "ReferenceTriangle" /\ degree = 2 /\ fe.node_count = 6
  /\ call.ret.val[4][4] = QInt(1) /\ call.ret.val[4][5] = QInt(0)

\* C2: for every degree >= 0, lagrange_points returns degree + 1 nodes on the
\* interval and (degree + 1)(degree + 2)/2 nodes on the triangle.
C2_NodeCount ==
  (call.op = "lagrange_points" /\ degree >= 0)
    => /\ call.ret.raised = "None"
       /\ Len(call.ret.val) = ExpectedCount(cell, degree)

C2_Witness ==
  /\ call.op = "lagrange_points" /\ cell = "ReferenceTriangle" /\ degree = 3
  /\ Len(call.ret.val) = 10

\* The number of places of entity_nodes that hold the index n.
Occurrences(entity_nodes, n) ==
  Len(SelectSeq(Concat(Concat(entity_nodes)), LAMBDA x : x = n))

\* C3: after construction every node index 0..node_count-1 appears in exactly
\* one list of entity_nodes, the list of the first entity (by dimension, then
\* index) whose point_in_entity holds for the node; none is missing or repeated.
C3_EveryNodeClassifiedOnce ==
  Constructed =>
    \A n \in 0..(fe.node_count - 1) :
      LET e == FirstEntity(cell, fe.nodes[n + 1])
      IN  /\ Occurrences(fe.entity_nodes, n) = 1
          /\ e # <<>>
          /\ \E m \in 1..Len(fe.entity_nodes[e[1] + 1][e[2] + 1]) :
               fe.entity_nodes[e[1] + 1][e[2] + 1][m] = n

\* C4: a negative degree makes lagrange_points, and so the construction of a
\* LagrangeElement, fail with InvalidDegree; no node set is returned.
C4_NegativeDegreeRejected ==
  (call.op \in {"lagrange_points", "LagrangeElement"} /\ degree < 0)
    => call.ret.raised = "InvalidDegree"

\* C5: for degree 0 lagrange_points returns one node whose coordinates are
\* well defined, never the result of 0/0.
C5_DegreeZeroNodeDefined ==
  (call.op = "lagrange_points" /\ degree = 0)
    => /\ call.ret.raised = "None"
       /\ Len(call.ret.val) = 1
       /\ \A k \in 1..Len(call.ret.val[1]) : call.ret.val[1][k] # NaN

\* C6: value-mode tabulate of the vector element has shape
\* (points, dim * nodes, dim); entry [p, k, c] is the scalar tabulation
\* [p, k // dim] when c = k % dim and exactly 0 otherwise.  Stated for
\* degree >= 1, where every node of the element is finite.
C6_VectorValues ==
  (pc = "vector" /\ degree >= 1 /\ call.op = "vtabulate" /\ ~call.grad) =>
    LET d == dim(cell)
        phi == tabulate(fe, call.points, FALSE).val
        out == call.ret.val
    IN  /\ call.ret.raised = "None"
        /\ Len(out) = Len(call.points)
        /\ \A p \in 1..Len(out) :
             /\ Len(out[p]) = d * fe.node_count
             /\ \A k \in 0..(d * fe.node_count - 1) :
                  /\ Len(out[p][k + 1]) = d
                  /\ \A c \in 0..(d - 1) :
                       out[p][k + 1][c + 1] =
                         IF c = k % d THEN phi[p][(k \div d) + 1] ELSE QInt(0)

\* C7: each scalar node n of entity (d, i) contributes exactly the vector
\* indices dim*n .. dim*n + dim - 1 to entity (d, i) of the vector element;
\* every stored index is below node_count = dim * scalar node_count and each
\* vector node index appears exactly once.  Stated for degree >= 1, where
\* every node of the element is finite.
C7_VectorEntityNodes ==
  (pc = "vector" /\ degree >= 1) =>
    LET d == dim(cell)
        sen == fe.entity_nodes
        ven == vfe.entity_nodes
    IN  /\ vfe.node_count = d * fe.node_count
        /\ \A dd \in 1..Len(sen) : \A i \in 1..Len(sen[dd]) :
             /\ Len(ven[dd][i]) = d * Len(sen[dd][i])
             /\ {ven[dd][i][m] : m \in 1..Len(ven[dd][i])}
                  = {d * sen[dd][i][m] + r :
                       m \in 1..Len(sen[dd][i]), r \in 0..(d - 1)}
             /\ \A m \in 1..Len(ven[dd][i]) : ven[dd][i][m] < vfe.node_count
        /\ \A k \in 0..(vfe.node_count - 1) : Occurrences(ven, k) = 1

\* C8: gradient-mode tabulate of the vector element has shape
\* (points, dim * nodes, dim, dim), third axis the vector component and fourth
\* axis the gradient direction: entry [p, k, c, g] is the scalar gradient
\* [p, k // dim, g] when c = k % dim and exactly 0 otherwise.  Stated for
\* degree >= 1, where every node of the element is finite.
C8_VectorGradients ==
  (pc = "vector" /\ degree >= 1 /\ call.op = "vtabulate" /\ call.grad) =>
    LET d == dim(cell)
        phi == tabulate(fe, call.points, TRUE).val
        out == call.ret.val
    IN  /\ call.ret.raised = "None"
        /\ Len(out) = Len(call.points)
        /\ \A p \in 1..Len(out) :
             /\ Len(out[p]) = d * fe.node_count
             /\ \A k \in 0..(d * fe.node_count - 1) :
                  /\ Len(out[p][k + 1]) = d
                  /\ \A c \in 0..(d - 1) :
                       /\ Len(out[p][k + 1][c + 1]) = d
                       /\ \A g \in 0..(d - 1) :
                            out[p][k + 1][c + 1][g + 1] =
                              IF c = k % d THEN phi[p][(k \div d) + 1][g + 1]
                              ELSE QInt(0)

\* A call of tabulate or interpolate on the scalar or on the vector element.
IsMethodCall(c) == c.op \in {"tabulate", "interpolate", "vtabulate"}

\* C9: once an element is constructed, tabulate and interpolate calls leave
\* its state (cell, degree, nodes, entity_nodes, nodes_per_entity, basis_coefs,
\* node_count) as it was, and a tabulate call with the arguments of an earlier
\* one returns what the earlier one returned, whatever was called in between.
C9_CallsLeaveElementUnchanged ==
  /\ [][(Constructed /\ IsMethodCall(call'))
          => /\ fe' = fe
             /\ cell' = cell /\ degree' = degree
             /\ (pc = "vector" => vfe' = vfe)]_vars
  /\ []((Constructed /\ memo # NoMemo /\ SameArguments(call, memo.first))
          => call.ret = memo.first.ret)

C9_Witness ==
  /\ pc = "vector" /\ memo.first.op = "tabulate" /\ memo.first.grad
  /\ memo.later /\ SameArguments(call, memo.first)
  /\ cell = "ReferenceTriangle" /\ degree = 2
  /\ fe = LagrangeElement(cell, degree).val

\* The exponents (a, b) of the monomial x^a y^b with 0-based basis index k:
\* x^k on the interval; on the triangle the groups of total degree i follow
\* one another, x^(i-j) y^j for j = 0..i.
Exponents(c, k) ==
  IF dim(c) = 1 THEN <<k, 0>>
  ELSE LET i == CHOOSE t \in 0..k :
                  (t * (t + 1)) \div 2 <= k /\ k < ((t + 1) * (t + 2)) \div 2
           j == k - (i * (i + 1)) \div 2
       IN  <<i - j, j>>

\* The power rule: d/dx of x^a is a x^(a-1), and 0 when a = 0.
DPow(x, a) == IF a = 0 THEN QInt(0) ELSE QMul(QInt(a), QPow(x, a - 1))

\* C10: vandermonde_matrix with grad=True has shape (num_points, num_basis,
\* dim) and holds the power-rule derivative of each monomial along each axis;
\* where the differentiated exponent would be negative the entry is exactly 0.
C10_GradientIsPowerRule ==
  (call.op = "vandermonde_matrix" /\ call.grad /\ degree >= 0) =>
    LET out == call.ret.val
        pts == call.points
    IN  /\ call.ret.raised = "None"
        /\ Len(out) = Len(pts)
        /\ \A p \in 1..Len(out) :
             /\ Len(out[p]) = ExpectedCount(cell, degree)
             /\ \A k \in 0..(ExpectedCount(cell, degree) - 1) :
                  LET ab == Exponents(cell, k)
                  IN  /\ Len(out[p][k + 1]) = dim(cell)
                      /\ IF dim(cell) = 1
                         THEN out[p][k + 1][1] = DPow(pts[p][1], ab[1])
                         ELSE /\ out[p][k + 1][1] =
                                   QMul(DPow(pts[p][1], ab[1]), QPow(pts[p][2], ab[2]))
                              /\ out[p][k + 1][2] =
                                   QMul(QPow(pts[p][1], ab[1]), DPow(pts[p][2], ab[2]))

C10_Witness ==
  /\ call.op = "vandermonde_matrix" /\ call.grad
  /\ cell = "ReferenceTriangle" /\ degree = 2
  /\ call.points = << <<Q(0, 1), Q(1, 2)>> >>
  /\ call.ret.val[1][1] = <<QInt(0), QInt(0)>>
  /\ call.ret.val[1][5] = <<Q(1, 2), QInt(0)>>

====
